---------------------------- MODULE Spec2Model ----------------------------
(***************************************************************************)
(* Model of "Tu huella/tienda_patrones1.1.py": the in-memory store         *)
(* (ConexionBaseDatos), the event bus (BusEventos), the observers, the     *)
(* product repository, the inventory, accounting and order services and    *)
(* the facade.                                                             *)
(*                                                                         *)
(* The program is single-threaded: every public operation runs to its      *)
(* return or to the exception that leaves it, so each operation is one     *)
(* action.  The operators below thread a record s (the whole program       *)
(* state) through the statements of the operation in source order;         *)
(* s.err holds the exception in flight (NoErr when none) and every         *)
(* statement is skipped once an exception is in flight, which is how a     *)
(* Python exception unwinds code that has no try/except (the source has    *)
(* none).  s.traza records, in order, the console lines the code writes    *)
(* through Logger / print and the handler calls of BusEventos.publicar,    *)
(* for the operation in progress; s.ret is the value the operation         *)
(* returns (Ninguno for Python's None).                                    *)
(*                                                                         *)
(* Numbers: prices, totals and incomes are Python floats holding integer   *)
(* values far below 2^53, so float(precio), the products precio * cant and *)
(* the sums are exact and are modelled by integers; int(stock) is applied  *)
(* to integers only.  datetime.now() values are left out of the records,   *)
(* and so is "descripcion", which no operation reads.  A Python list of    *)
(* product rows is the set of its rows (rows differ in idProducto); the    *)
(* order of such a list, the insertion order of the dict, is left out.     *)
(***************************************************************************)
EXTENDS Integers, Sequences, FiniteSets, TLC

\* ------------------------------------------------------------------ bounds
MaxPasos == 5        \* operations called in one behaviour

\* ------------------------------------------------------- input domains
IdsProducto == {101, 102}
IdsCliente == {1, 2}
Nombres == {"Zapatilla Deportiva", "Zapatilla Casual"}
Precios == {95000, 120000}
Stocks == {0, 1, 2}
Cantidades == {1, 2}

NoErr == "sin excepcion"
ErrNoEncontrado == "ValueError: Producto no encontrado"
ErrNoExiste == "ValueError: Producto no existe"
ErrCarrito == "ValueError: Carrito vacio o inexistente"
ErrPago == "RuntimeError: Pago rechazado"
ErrHandler == "Exception: handler"

EvProducto == "producto_actualizado"
EvVenta == "venta_realizada"
EvOrden == "orden_completada"
NombresEvento == {EvProducto, EvVenta, EvOrden}

\* The "evento" strings of the payloads; "Orden #<n> completada" keeps its n.
Evento(texto, num) == [texto |-> texto, num |-> num]
EvIngreso == Evento("Ingreso a inventario", 0)
EvVentaRealizada == Evento("Venta realizada", 0)
EvAgotado == Evento("Producto agotado", 0)
EvOrdenCompletada(idFactura) == Evento("Orden # completada", idFactura)

Datos(idProducto, evento) == [idProducto |-> idProducto, evento |-> evento]

\* "agotado" in evento.lower(), over the event texts above
ContieneAgotado(evento) == evento.texto \in {"Producto agotado"}

\* A handler is a callable bound to an observer object.
Handler(obs, carrito) == [obs |-> obs, carrito |-> carrito]
obs_carrito == Handler("ObservadorCarrito", 0)
obs_conta == Handler("ObservadorContabilidad", 0)
obs_audi == Handler("ObservadorAuditoria", 0)
obs_notif == Handler("ObservadorNotificacion", 0)
HandlerCarrito(c) == Handler("Carrito", c)
HandlerQueFalla == Handler("falla", 0)

VARIABLES
  productos,            \* ConexionBaseDatos.productos: id -> row
  clientes,             \* ConexionBaseDatos.clientes: id -> row
  carritos,             \* ConexionBaseDatos.carritos: id -> Carrito
  facturas,             \* ConexionBaseDatos.facturas: id -> Factura
  seq_factura,          \* ConexionBaseDatos.seq_factura
  suscriptores,         \* BusEventos.suscriptores: event name -> handlers
  ingresos,             \* Contabilidad.ingresos
  ingresos_acumulados,  \* ObservadorContabilidad.ingresos_acumulados
  historial,            \* ObservadorAuditoria.historial
  traza,                \* console lines and handler calls of the last operation
  pasos,                \* operations called so far
  resultado,            \* how it ended: "ok" or the exception raised
  retorno               \* the value the last operation returned

vars == <<productos, clientes, carritos, facturas, seq_factura, suscriptores,
          ingresos, ingresos_acumulados, historial, traza, pasos, resultado,
          retorno>>

\* --------------------------------------------------------------- dicts
Vacio == <<>>
Put(d, k, v) == [x \in (DOMAIN d) \cup {k} |-> IF x = k THEN v ELSE d[x]]
SetDefault(d, k, v) == IF k \in DOMAIN d THEN d ELSE Put(d, k, v)
GetLista(d, k) == IF k \in DOMAIN d THEN d[k] ELSE <<>>

\* ------------------------------------------------ the state in progress
\* Returned values: None, a Producto, a Factura, a list of product rows.
Ninguno == [tipo |-> "None"]
Valor(tipo, valor) == [tipo |-> tipo, valor |-> valor]

Estado ==
  [productos |-> productos, clientes |-> clientes, carritos |-> carritos,
   facturas |-> facturas, seq_factura |-> seq_factura,
   suscriptores |-> suscriptores, ingresos |-> ingresos,
   ingresos_acumulados |-> ingresos_acumulados, historial |-> historial,
   traza |-> <<>>, err |-> NoErr, ret |-> Ninguno]

Entrada(op, ev, obs, id, n) == [op |-> op, ev |-> ev, obs |-> obs, id |-> id, n |-> n]
Log(s, e) == [s EXCEPT !.traza = Append(@, e)]
Raise(s, e) == [s EXCEPT !.err = e]
Return(s, v) == IF s.err # NoErr THEN s ELSE [s EXCEPT !.ret = v]

\* ------------------------------------------------------------ observers
ObservadorCarrito_actualizar(s, idProducto, evento) == s

\* mutant: one unit is counted per event instead of the unit price
ObservadorContabilidad_actualizarUnidad(s, idProducto, evento) ==
  IF idProducto \notin DOMAIN s.productos
  THEN s
  ELSE [s EXCEPT !.ingresos_acumulados = @ + 1]

ObservadorContabilidad_actualizar(s, idProducto, evento) ==
  IF idProducto \notin DOMAIN s.productos
  THEN s
  ELSE [s EXCEPT !.ingresos_acumulados = @ + s.productos[idProducto].precio]

\* mutant: a record equal to the last one is not appended again
ObservadorAuditoria_actualizarSinRepetir(s, idProducto, evento) ==
  IF s.historial # <<>> /\ s.historial[Len(s.historial)] = <<idProducto, evento>>
  THEN s
  ELSE [s EXCEPT !.historial = Append(@, <<idProducto, evento>>)]

ObservadorAuditoria_actualizar(s, idProducto, evento) ==
  [s EXCEPT !.historial = Append(@, <<idProducto, evento>>)]

ObservadorNotificacion_actualizar(s, idProducto, evento) == s

\* Rebinds self.productos to a new, filtered list.
onProductoActualizado(s, c, idProducto, evento) ==
  IF ContieneAgotado(evento)
  THEN [s EXCEPT !.carritos[c].productos =
          SelectSeq(@, LAMBDA item : item[1] # idProducto)]
  ELSE s

Carrito_actualizar(s, c, idProducto, evento) ==
  onProductoActualizado(s, c, idProducto, evento)

\* handler(datos): the call is recorded, then the observer's body runs.
invocar(s, h, nombreEvento, datos) ==
  LET s1 == Log(s, Entrada("handler", nombreEvento, h.obs, datos.idProducto, h.carrito))
      id == datos.idProducto
      ev == datos.evento
  IN CASE h.obs = "ObservadorCarrito" -> ObservadorCarrito_actualizar(s1, id, ev)
       [] h.obs = "ObservadorContabilidad" -> ObservadorContabilidad_actualizar(s1, id, ev)
       [] h.obs = "ObservadorAuditoria" -> ObservadorAuditoria_actualizar(s1, id, ev)
       [] h.obs = "ObservadorNotificacion" -> ObservadorNotificacion_actualizar(s1, id, ev)
       [] h.obs = "Carrito" -> Carrito_actualizar(s1, h.carrito, id, ev)
       [] OTHER -> Raise(s1, ErrHandler)

\* ------------------------------------------------------------ BusEventos
\* mutant: a handler registered twice is called once
RECURSIVE despacharSinRepetir(_, _, _, _)
despacharSinRepetir(s, handlers, nombreEvento, datos) ==
  IF handlers = <<>> \/ s.err # NoErr
  THEN s
  ELSE despacharSinRepetir(
         invocar(s, Head(handlers), nombreEvento, datos),
         SelectSeq(Tail(handlers), LAMBDA h : h # Head(handlers)),
         nombreEvento, datos)

\* mutant: the bus catches what a handler raises and goes on
RECURSIVE despacharAtrapando(_, _, _, _)
despacharAtrapando(s, handlers, nombreEvento, datos) ==
  IF handlers = <<>>
  THEN s
  ELSE despacharAtrapando(
         [invocar(s, Head(handlers), nombreEvento, datos) EXCEPT !.err = NoErr],
         Tail(handlers), nombreEvento, datos)

RECURSIVE despachar(_, _, _, _)
despachar(s, handlers, nombreEvento, datos) ==
  IF handlers = <<>> \/ s.err # NoErr
  THEN s
  ELSE despachar(invocar(s, Head(handlers), nombreEvento, datos),
                 Tail(handlers), nombreEvento, datos)

publicar(s, nombreEvento, datos) ==
  IF s.err # NoErr THEN s
  ELSE despachar(Log(s, Entrada("publicar", nombreEvento, datos.evento.texto,
                                datos.idProducto, datos.evento.num)),
                 GetLista(s.suscriptores, nombreEvento), nombreEvento, datos)

suscribir(s, nombreEvento, handler) ==
  IF s.err # NoErr THEN s
  ELSE Log([s EXCEPT !.suscriptores =
              Put(@, nombreEvento, Append(GetLista(@, nombreEvento), handler))],
           Entrada("suscrito", nombreEvento, handler.obs, 0, handler.carrito))

\* --------------------------------------------------------------- Carrito
NuevoCarrito == [productos |-> <<>>, total |-> 0]

RECURSIVE SumaTotal(_, _)
SumaTotal(prods, items) ==
  IF items = <<>> THEN 0
  ELSE LET idP == Head(items)[1]
           cant == Head(items)[2]
           precio == IF idP \in DOMAIN prods THEN prods[idP].precio ELSE 0
       IN precio * cant + SumaTotal(prods, Tail(items))

calcularTotal(s, c) ==
  IF s.err # NoErr THEN s
  ELSE LET total == SumaTotal(s.productos, s.carritos[c].productos)
       IN Log([s EXCEPT !.carritos[c].total = total],
              Entrada("total", "", "", c, total))

\* mutant: the list is cleared and the total is left as it was
vaciarCarritoSinTotal(s, c) ==
  IF s.err # NoErr THEN s
  ELSE Log([s EXCEPT !.carritos[c].productos = <<>>], Entrada("vaciado", "", "", c, 0))

\* mutant: the invoice was given the cart's list itself, not a copy, so
\* clear() on the cart's list empties the invoice's line items too
vaciarCarritoSinCopia(s, c) ==
  IF s.err # NoErr THEN s
  ELSE LET ultima == s.seq_factura - 1
       IN Log([s EXCEPT !.carritos[c] = NuevoCarrito,
                        !.facturas = IF ultima \in DOMAIN @
                                     THEN [@ EXCEPT ![ultima].productos = <<>>]
                                     ELSE @],
              Entrada("vaciado", "", "", c, 0))

vaciarCarrito(s, c) ==
  IF s.err # NoErr THEN s
  ELSE Log([s EXCEPT !.carritos[c] = NuevoCarrito], Entrada("vaciado", "", "", c, 0))

\* Carrito.productos is a public list: a caller holding the store appends
\* a line item to it as the facade does (setdefault of line 504, append of
\* line 513) without the facade's checks in between.
productos_append(s, c, idProducto, cantidad) ==
  LET s1 == [s EXCEPT !.carritos = SetDefault(@, c, NuevoCarrito)]
  IN [s1 EXCEPT !.carritos[c].productos = Append(@, <<idProducto, cantidad>>)]

\* ------------------------------------------------ ProductoRepositorioImpl
\* Producto(idProducto, row["nombre"], ..., row["precio"], row["stock"])
Producto(idProducto, row) ==
  [idProducto |-> idProducto, nombre |-> row.nombre, precio |-> row.precio,
   inventario |-> row.stock]

\* mutant: a missing row is answered with None instead of an exception
obtenerPorIdSinError(s, idProducto) ==
  IF s.err # NoErr THEN s
  ELSE IF idProducto \notin DOMAIN s.productos
  THEN Return(s, Ninguno)
  ELSE Return(s, Valor("Producto", Producto(idProducto, s.productos[idProducto])))

obtenerPorId(s, idProducto) ==
  IF s.err # NoErr THEN s
  ELSE IF idProducto \notin DOMAIN s.productos
  THEN Raise(s, ErrNoEncontrado)
  ELSE Return(s, Valor("Producto", Producto(idProducto, s.productos[idProducto])))

\* mutant: a row already stored under the id is kept (insert, no overwrite)
guardarSiFalta(s, producto) ==
  IF s.err # NoErr THEN s
  ELSE Log([s EXCEPT !.productos =
              SetDefault(@, producto.idProducto,
                  [idProducto |-> producto.idProducto, nombre |-> producto.nombre,
                   precio |-> producto.precio, stock |-> producto.stock])],
           Entrada("guardado", "", producto.nombre, producto.idProducto, 0))

guardar(s, producto) ==
  IF s.err # NoErr THEN s
  ELSE Log([s EXCEPT !.productos =
              Put(@, producto.idProducto,
                  [idProducto |-> producto.idProducto, nombre |-> producto.nombre,
                   precio |-> producto.precio, stock |-> producto.stock])],
           Entrada("guardado", "", producto.nombre, producto.idProducto, 0))

\* mutant: the stock is not let below 0
actualizarInventarioSinNegativos(s, idProducto, delta) ==
  IF s.err # NoErr THEN s
  ELSE IF idProducto \notin DOMAIN s.productos
  THEN Raise(s, ErrNoExiste)
  ELSE LET suma == s.productos[idProducto].stock + delta
           nuevo == IF suma < 0 THEN 0 ELSE suma
       IN Log([s EXCEPT !.productos[idProducto].stock = nuevo],
              Entrada("inventario", "", "", idProducto, nuevo))

actualizarInventario(s, idProducto, delta) ==
  IF s.err # NoErr THEN s
  ELSE IF idProducto \notin DOMAIN s.productos
  THEN Raise(s, ErrNoExiste)
  ELSE LET nuevo == s.productos[idProducto].stock + delta
       IN Log([s EXCEPT !.productos[idProducto].stock = nuevo],
              Entrada("inventario", "", "", idProducto, nuevo))

\* ------------------------------------------------- InventarioServiceImpl
ingresarProducto(s, productoDto) ==
  publicar(guardar(s, productoDto), EvProducto, Datos(productoDto.idProducto, EvIngreso))

\* mutant: one event per dispatch instead of one per unit
publicarUnaVenta(s, idProducto, n) ==
  IF n <= 0 \/ s.err # NoErr THEN s
  ELSE publicar(s, EvVenta, Datos(idProducto, EvVentaRealizada))

RECURSIVE publicarVentas(_, _, _)
publicarVentas(s, idProducto, n) ==
  IF n <= 0 \/ s.err # NoErr THEN s
  ELSE publicarVentas(publicar(s, EvVenta, Datos(idProducto, EvVentaRealizada)),
                      idProducto, n - 1)

\* consultarInventario -> obtenerPorId raises when the row is missing
agotado(s, idProducto) ==
  IF s.err # NoErr THEN s
  ELSE IF idProducto \notin DOMAIN s.productos
  THEN Raise(s, ErrNoEncontrado)
  ELSE IF s.productos[idProducto].stock <= 0
  THEN publicar(s, EvProducto, Datos(idProducto, EvAgotado))
  ELSE s

darSalidaProducto(s, idProducto, cantidad) ==
  agotado(publicarVentas(actualizarInventario(s, idProducto, -cantidad),
                         idProducto, cantidad),
          idProducto)

\* --------------------------------------------------------- Contabilidad
\* mutant: = instead of +=
registrarIngresoAsigna(s, total) ==
  IF s.err # NoErr THEN s
  ELSE Log([s EXCEPT !.ingresos = total], Entrada("ingreso", "", "", 0, total))

registrarIngreso(s, total) ==
  IF s.err # NoErr THEN s
  ELSE Log([s EXCEPT !.ingresos = @ + total], Entrada("ingreso", "", "", 0, total))

\* ------------------------------------------------------ OrdenServiceImpl
\* mutant: resultado.get("ok") is never looked at
procesarPagoSinRechazo(s, monto, ok) ==
  IF s.err # NoErr THEN s
  ELSE Log(s, Entrada("pago", "", IF ok THEN "ok" ELSE "rechazado", 0, monto))

procesarPago(s, monto, ok) ==
  IF s.err # NoErr THEN s
  ELSE LET s1 == Log(s, Entrada("pago", "", IF ok THEN "ok" ELSE "rechazado", 0, monto))
       IN IF ok THEN s1 ELSE Raise(s1, ErrPago)

\* mutant: every line item is validated before the first dispatch
RECURSIVE descontarUnoAUno(_, _)
descontarUnoAUno(s, items) ==
  IF items = <<>> \/ s.err # NoErr THEN s
  ELSE descontarUnoAUno(darSalidaProducto(s, Head(items)[1], Head(items)[2]),
                        Tail(items))

descontarTodoONada(s, items) ==
  IF s.err # NoErr THEN s
  ELSE IF \E i \in 1..Len(items) : items[i][1] \notin DOMAIN s.productos
  THEN Raise(s, ErrNoExiste)
  ELSE descontarUnoAUno(s, items)

\* mutant: a product already dispatched for an earlier line item is skipped
RECURSIVE descontarSinRepetidos(_, _)
descontarSinRepetidos(s, items) ==
  IF items = <<>> \/ s.err # NoErr THEN s
  ELSE descontarSinRepetidos(
         darSalidaProducto(s, Head(items)[1], Head(items)[2]),
         SelectSeq(Tail(items), LAMBDA item : item[1] # Head(items)[1]))

\* for idP, cant in carrito.productos: the loop walks the list object it
\* started on, also when an observer rebinds carrito.productos meanwhile.
RECURSIVE descontar(_, _)
descontar(s, items) ==
  IF items = <<>> \/ s.err # NoErr THEN s
  ELSE descontar(darSalidaProducto(s, Head(items)[1], Head(items)[2]), Tail(items))

\* mutant: seq_factura is read but not advanced
crearFacturaSinAvanzar(s, idCliente, idCarrito, total) ==
  IF s.err # NoErr THEN s
  ELSE LET idFactura == s.seq_factura
           factura == [idFactura |-> idFactura, cliente |-> idCliente,
                       productos |-> s.carritos[idCarrito].productos, total |-> total]
       IN Return(Log([s EXCEPT !.facturas = Put(@, idFactura, factura)],
                     Entrada("factura", "", "", idFactura, total)),
                 Valor("Factura", factura))

\* factura is the object that "return factura" hands back at the end of
\* verificar.
crearFactura(s, idCliente, idCarrito, total) ==
  IF s.err # NoErr THEN s
  ELSE LET idFactura == s.seq_factura
           factura == [idFactura |-> idFactura, cliente |-> idCliente,
                       productos |-> s.carritos[idCarrito].productos, total |-> total]
       IN Return(Log([s EXCEPT !.seq_factura = @ + 1,
                               !.facturas = Put(@, idFactura, factura)],
                     Entrada("factura", "", "", idFactura, total)),
                 Valor("Factura", factura))

ordenCompletada(s) ==
  IF s.err # NoErr THEN s
  ELSE publicar(s, EvOrden, Datos(0, EvOrdenCompletada(s.seq_factura - 1)))

\* mutant: carrito.total is read without calling calcularTotal()
totalGuardado(s, idCarrito) ==
  Log(s, Entrada("total", "", "", idCarrito, s.carritos[idCarrito].total))

\* total = carrito.calcularTotal()
totalOrden(s, idCarrito) == calcularTotal(s, idCarrito)

\* mutant: only "not carrito"
carritoAusente(s, idCarrito) == idCarrito \notin DOMAIN s.carritos

\* not carrito or not carrito.productos
carritoInvalido(s, idCarrito) ==
  \/ idCarrito \notin DOMAIN s.carritos
  \/ s.carritos[idCarrito].productos = <<>>

\* mutant: the invoice is created before the inventory is discounted
verificarFacturaAntes(s, idCliente, idCarrito, pagoOk) ==
  IF carritoInvalido(s, idCarrito)
  THEN Raise(s, ErrCarrito)
  ELSE LET s1 == totalOrden(s, idCarrito)
           total == s1.carritos[idCarrito].total
           s2 == procesarPago(s1, total, pagoOk)
           s3 == crearFactura(s2, idCliente, idCarrito, total)
           s4 == descontar(s3, s3.carritos[idCarrito].productos)
           s5 == registrarIngreso(s4, total)
           s6 == ordenCompletada(s5)
       IN vaciarCarrito(s6, idCarrito)

verificar(s, idCliente, idCarrito, pagoOk) ==
  IF carritoInvalido(s, idCarrito)
  THEN Raise(s, ErrCarrito)
  ELSE LET s1 == totalOrden(s, idCarrito)
           total == s1.carritos[idCarrito].total
           s2 == procesarPago(s1, total, pagoOk)
           s3 == descontar(s2, s2.carritos[idCarrito].productos)
           s4 == crearFactura(s3, idCliente, idCarrito, total)
           s5 == registrarIngreso(s4, total)
           s6 == ordenCompletada(s5)
       IN vaciarCarrito(s6, idCarrito)

\* -------------------------------------------------- CatalogoServiceImpl
\* filtros is None (dado = FALSE) or a dict; an option is <<>> when its key
\* is absent from the dict and <<v>> when the dict holds v under the key.
SinFiltros == [dado |-> FALSE, dict |-> <<>>]
Clave(k, o) == IF o = <<>> THEN <<>> ELSE (k :> o[1])
Filtro(minp, maxp, dispo) ==
  [dado |-> TRUE,
   dict |-> Clave("min_precio", minp) @@ Clave("max_precio", maxp)
            @@ Clave("disponibles", dispo)]

\* mutant: the lower price bound is exclusive
listarProductosEstricto(s, filtros) ==
  LET prods == {s.productos[p] : p \in DOMAIN s.productos}
      f == filtros.dict
      porMin == IF "min_precio" \in DOMAIN f
                THEN {p \in prods : p.precio > f["min_precio"]} ELSE prods
      porMax == IF "max_precio" \in DOMAIN f
                THEN {p \in porMin : p.precio <= f["max_precio"]} ELSE porMin
      porDispo == IF "disponibles" \in DOMAIN f /\ f["disponibles"]
                  THEN {p \in porMax : p.stock > 0} ELSE porMax
  IN IF filtros.dado /\ DOMAIN f # {}
     THEN Return(s, Valor("lista", porDispo))
     ELSE Return(s, Valor("lista", prods))

listarProductos(s, filtros) ==
  LET prods == {s.productos[p] : p \in DOMAIN s.productos}
      f == filtros.dict
      porMin == IF "min_precio" \in DOMAIN f
                THEN {p \in prods : p.precio >= f["min_precio"]} ELSE prods
      porMax == IF "max_precio" \in DOMAIN f
                THEN {p \in porMin : p.precio <= f["max_precio"]} ELSE porMin
      porDispo == IF "disponibles" \in DOMAIN f /\ f["disponibles"]
                  THEN {p \in porMax : p.stock > 0} ELSE porMax
  IN IF filtros.dado /\ DOMAIN f # {}
     THEN Return(s, Valor("lista", porDispo))
     ELSE Return(s, Valor("lista", prods))

\* -------------------------------------------------------- FachadaTienda
\* mutant: prod["stock"] <= cantidad refuses the last units
agregarAlCarritoEstricto(s, idCliente, idProducto, cantidad) ==
  LET s1 == [s EXCEPT !.clientes = SetDefault(@, idCliente, [idCliente |-> idCliente]),
                      !.carritos = SetDefault(@, idCliente, NuevoCarrito)]
  IN IF idProducto \notin DOMAIN s1.productos
     THEN Log(s1, Entrada("error", "", "Producto no encontrado", idProducto, cantidad))
     ELSE IF s1.productos[idProducto].stock <= cantidad
     THEN Log(s1, Entrada("error", "", "Stock insuficiente", idProducto, cantidad))
     ELSE LET s2 == [s1 EXCEPT !.carritos[idCliente].productos =
                                  Append(@, <<idProducto, cantidad>>)]
          IN Log(calcularTotal(s2, idCliente),
                 Entrada("agregado", "", "", idProducto, cantidad))

agregarAlCarrito(s, idCliente, idProducto, cantidad) ==
  LET s1 == [s EXCEPT !.clientes = SetDefault(@, idCliente, [idCliente |-> idCliente]),
                      !.carritos = SetDefault(@, idCliente, NuevoCarrito)]
  IN IF idProducto \notin DOMAIN s1.productos
     THEN Log(s1, Entrada("error", "", "Producto no encontrado", idProducto, cantidad))
     ELSE IF s1.productos[idProducto].stock < cantidad
     THEN Log(s1, Entrada("error", "", "Stock insuficiente", idProducto, cantidad))
     ELSE LET s2 == [s1 EXCEPT !.carritos[idCliente].productos =
                                  Append(@, <<idProducto, cantidad>>)]
          IN Log(calcularTotal(s2, idCliente),
                 Entrada("agregado", "", "", idProducto, cantidad))

\* One operation: it runs on the current state and its result becomes the
\* next state, whether it returned or raised.
Commit(s) ==
  /\ pasos < MaxPasos
  /\ productos' = s.productos
  /\ clientes' = s.clientes
  /\ carritos' = s.carritos
  /\ facturas' = s.facturas
  /\ seq_factura' = s.seq_factura
  /\ suscriptores' = s.suscriptores
  /\ ingresos' = s.ingresos
  /\ ingresos_acumulados' = s.ingresos_acumulados
  /\ historial' = s.historial
  /\ traza' = s.traza
  /\ pasos' = pasos + 1
  /\ resultado' = IF s.err = NoErr THEN "ok" ELSE s.err
  /\ retorno' = IF s.err = NoErr THEN s.ret ELSE Ninguno

\* ------------------------------------------------------------- wiring
\* demo(): the subscriptions of lines 540-549
SuscriptoresDemo ==
  (EvProducto :> <<obs_carrito, obs_audi, obs_notif>>)
  @@ (EvVenta :> <<obs_carrito, obs_conta, obs_audi, obs_notif>>)
  @@ (EvOrden :> <<obs_audi>>)

\* ConexionBaseDatos.__new__, BusEventos.__init__, Contabilidad.__init__ and
\* the class attributes of the observers; bus is the wiring done before the
\* first operation.
InitCon(bus) ==
  /\ productos = Vacio
  /\ clientes = Vacio
  /\ carritos = Vacio
  /\ facturas = Vacio
  /\ seq_factura = 1
  /\ suscriptores = bus
  /\ ingresos = 0
  /\ ingresos_acumulados = 0
  /\ historial = <<>>
  /\ traza = <<>>
  /\ pasos = 0
  /\ resultado = "ok"
  /\ retorno = Ninguno

\* ------------------------------------------------------------- actions
IngresarProducto(dto) == Commit(ingresarProducto(Estado, dto))

AgregarAlCarrito(idCliente, idProducto, cantidad) ==
  Commit(agregarAlCarrito(Estado, idCliente, idProducto, cantidad))

\* FachadaTienda.finalizarCompra delegates to OrdenServiceImpl.verificar;
\* pagoOk is resultado.get("ok") of the payment gateway the service was
\* built with (PasarelaPago itself always answers ok).
FinalizarCompra(idCliente, idCarrito, pagoOk) ==
  Commit(verificar(Estado, idCliente, idCarrito, pagoOk))

DarSalidaProducto(idProducto, cantidad) ==
  Commit(darSalidaProducto(Estado, idProducto, cantidad))

Suscribir(nombreEvento, handler) == Commit(suscribir(Estado, nombreEvento, handler))

Publicar(nombreEvento, datos) == Commit(publicar(Estado, nombreEvento, datos))

ProductosAppend(idCarrito, idProducto, cantidad) ==
  Commit(productos_append(Estado, idCarrito, idProducto, cantidad))

ActualizarInventario(idProducto, delta) ==
  Commit(actualizarInventario(Estado, idProducto, delta))

ObtenerPorId(idProducto) == Commit(obtenerPorId(Estado, idProducto))

ListarProductos(filtros) == Commit(listarProductos(Estado, filtros))

Dtos == [idProducto : IdsProducto, nombre : Nombres, precio : Precios, stock : Stocks]
DtosTienda == {dto \in Dtos : dto.nombre = "Zapatilla Deportiva"}
DtosUnPrecio == {dto \in DtosTienda : dto.precio = 95000}

\* ---------------------------------------------------------------------
\* Spec: the shop as demo() wires and uses it: products are ingested, the
\* facade adds to carts and finalizes purchases.
Init == InitCon(SuscriptoresDemo)

Next ==
  \/ \E dto \in DtosTienda : IngresarProducto(dto)
  \/ \E c \in IdsCliente, p \in IdsProducto, q \in Cantidades : AgregarAlCarrito(c, p, q)
  \/ \E c \in IdsCliente, ok \in BOOLEAN : FinalizarCompra(c, c, ok)

Spec == Init /\ [][Next]_vars

\* ---------------------------------------------------------------------
\* SpecInventario: the inventory service called directly, on the bus wired
\* as in demo(), to which a raising handler may be added.
Salidas == {0, 1, 2, 3}

NextInventario ==
  \/ \E dto \in DtosUnPrecio : IngresarProducto(dto)
  \/ \E p \in IdsProducto, n \in Salidas : DarSalidaProducto(p, n)
  \/ \E ev \in {EvVenta, EvProducto} : Suscribir(ev, HandlerQueFalla)

SpecInventario == Init /\ [][NextInventario]_vars

\* ---------------------------------------------------------------------
\* SpecBus: a bus that starts empty; handlers are subscribed in any order
\* and number, events are published directly and by the shop.
HandlersBus == {obs_audi, obs_conta, HandlerQueFalla}
DatosBus == {Datos(101, EvVentaRealizada)}
DtosBus == {dto \in DtosUnPrecio : dto.idProducto = 101 /\ dto.stock > 0}

InitBus == InitCon(Vacio)

NextBus ==
  \/ \E ev \in {EvVenta, EvProducto}, h \in HandlersBus : Suscribir(ev, h)
  \/ \E ev \in NombresEvento, d \in DatosBus : Publicar(ev, d)
  \/ \E dto \in DtosBus : IngresarProducto(dto)
  \/ \E q \in Cantidades : AgregarAlCarrito(1, 101, q)
  \/ FinalizarCompra(1, 1, TRUE)

SpecBus == InitBus /\ [][NextBus]_vars

\* ---------------------------------------------------------------------
\* SpecDirecto: the shop of demo() with carts filled by callers that append
\* to Carrito.productos themselves, so a line item may name any product.
NextDirecto ==
  \/ \E dto \in DtosUnPrecio : IngresarProducto(dto)
  \/ \E c \in IdsCliente, p \in IdsProducto, q \in Cantidades :
       ProductosAppend(c, p, q)
  \/ \E c \in IdsCliente, ok \in BOOLEAN : FinalizarCompra(c, c, ok)

SpecDirecto == Init /\ [][NextDirecto]_vars

\* ---------------------------------------------------------------------
\* SpecRepositorio: the product repository called directly.
Deltas == {-3, -2, -1, 0, 1, 2, 3}

NextRepositorio ==
  \/ \E dto \in DtosTienda : IngresarProducto(dto)
  \/ \E p \in IdsProducto, delta \in Deltas : ActualizarInventario(p, delta)
  \/ \E p \in IdsProducto : ObtenerPorId(p)

SpecRepositorio == Init /\ [][NextRepositorio]_vars

\* ---------------------------------------------------------------------
\* SpecCarritoObservador: the shop of demo() in which client 1's cart, once
\* it is in the store, may be subscribed to producto_actualizado through its
\* own actualizar (Carrito is an IObservadorProducto).
SuscribirCarrito(c) ==
  /\ c \in DOMAIN carritos
  /\ Suscribir(EvProducto, HandlerCarrito(c))

NextCarritoObservador ==
  \/ \E dto \in DtosUnPrecio : IngresarProducto(dto)
  \/ \E p \in IdsProducto, q \in Cantidades : AgregarAlCarrito(1, p, q)
  \/ SuscribirCarrito(1)
  \/ \E ok \in BOOLEAN : FinalizarCompra(1, 1, ok)

SpecCarritoObservador == Init /\ [][NextCarritoObservador]_vars

\* ---------------------------------------------------------------------
\* SpecErrores: every operation that can detect a failure, called by one
\* client on a small stock.
DtosErrores == {dto \in DtosUnPrecio : dto.stock < 2}

NextErrores ==
  \/ \E dto \in DtosErrores : IngresarProducto(dto)
  \/ \E p \in IdsProducto : ObtenerPorId(p)
  \/ \E p \in IdsProducto : ActualizarInventario(p, -1)
  \/ \E p \in IdsProducto : DarSalidaProducto(p, 1)
  \/ \E p \in IdsProducto, q \in Cantidades : AgregarAlCarrito(1, p, q)
  \/ \E p \in IdsProducto : ProductosAppend(1, p, 1)
  \/ \E ok \in BOOLEAN : FinalizarCompra(1, 1, ok)

SpecErrores == Init /\ [][NextErrores]_vars

\* ---------------------------------------------------------------------
\* SpecCatalogo: products are ingested and re-ingested with any name, price
\* and stock, fetched by id and listed through the catalog.
DtosCatalogo == {dto \in Dtos : dto.stock < 2}
CotasMin == {<<>>, <<95000>>, <<100000>>}
CotasMax == {<<>>, <<100000>>, <<120000>>}
Disponibles == {<<>>, <<TRUE>>, <<FALSE>>}
Filtros ==
  {SinFiltros}
  \cup {Filtro(minp, maxp, dispo) :
          minp \in CotasMin, maxp \in CotasMax, dispo \in Disponibles}

NextCatalogo ==
  \/ \E dto \in DtosCatalogo : IngresarProducto(dto)
  \/ \E p \in IdsProducto : ObtenerPorId(p)
  \/ \E f \in Filtros : ListarProductos(f)

SpecCatalogo == Init /\ [][NextCatalogo]_vars

\* ------------------------------------------------------ claim helpers
\* The entries of a trace that are publications of the event named ev.
Publicaciones(tr, ev) == SelectSeq(tr, LAMBDA e : e.op = "publicar" /\ e.ev = ev)
PublicaAlgo(tr) == \E i \in 1..Len(tr) : tr[i].op = "publicar"
Llamadas(tr) == SelectSeq(tr, LAMBDA e : e.op = "handler")
Indices(tr, op) == {i \in 1..Len(tr) : tr[i].op = op}

\* Price x quantity of line item i of items, at the prices of prods.
Importe(prods, items, i) ==
  IF items[i][1] \in DOMAIN prods THEN prods[items[i][1]].precio * items[i][2] ELSE 0

RECURSIVE SumaImportes(_, _, _)
SumaImportes(prods, items, n) ==
  IF n = 0 THEN 0 ELSE SumaImportes(prods, items, n - 1) + Importe(prods, items, n)

RECURSIVE SumaFacturas(_, _)
SumaFacturas(fs, ids) ==
  IF ids = {} THEN 0
  ELSE LET id == CHOOSE x \in ids : TRUE
       IN fs[id].total + SumaFacturas(fs, ids \ {id})

\* The last operation was a checkout that returned its invoice.
CompraExitosa ==
  /\ resultado = "ok"
  /\ traza # <<>>
  /\ traza[Len(traza)].op = "vaciado"

\* ----------------------------------------------------------------- C1
\* C1: with products ingested with stock >= 0 and carts built through the
\* facade's add-to-cart, every product's stock is >= 0 after each
\* successful checkout.
C1_StockNoNegativo ==
  CompraExitosa => \A p \in DOMAIN productos : productos[p].stock >= 0

\* ----------------------------------------------------------------- C2
SinCarrito(idCarrito) ==
  \/ idCarrito \notin DOMAIN carritos
  \/ carritos[idCarrito].productos = <<>>

\* C2: checkout of a cart id that is absent from the store, or of a cart
\* with no line items, fails with "Carrito vacio o inexistente" and changes
\* nothing: no invoice, same counter, same income, same stock, no event.
C2_CarritoVacioFalla ==
  [][\A c \in IdsCliente, k \in IdsCliente, ok \in BOOLEAN :
       (SinCarrito(k) /\ FinalizarCompra(c, k, ok)) =>
         /\ resultado' = ErrCarrito
         /\ UNCHANGED <<productos, clientes, carritos, facturas, seq_factura,
                        suscriptores, ingresos, ingresos_acumulados, historial>>
         /\ ~PublicaAlgo(traza')]_vars

\* A checkout has just failed on a cart that is in the store and empty.
C2_Testigo ==
  /\ resultado = ErrCarrito
  /\ DOMAIN carritos = IdsCliente
  /\ \A c \in IdsCliente : carritos[c].productos = <<>>

\* ----------------------------------------------------------------- C3
\* C3: the total of the invoice a successful checkout returns is the sum
\* over the cart's line items of unit price x quantity at the prices stored
\* when the checkout is called (the cart is the one the trace ends emptying).
C3_TotalFactura ==
  [][CompraExitosa' =>
       LET k == traza'[Len(traza')].id
       IN /\ seq_factura \in DOMAIN facturas'
          /\ facturas'[seq_factura].total =
               SumaImportes(productos, carritos[k].productos,
                            Len(carritos[k].productos))]_vars

\* The invoice of A 120000 x 2 plus B 95000 x 1.
C3_Testigo ==
  /\ CompraExitosa
  /\ \E f \in DOMAIN facturas :
       /\ facturas[f].productos = <<(<<101, 2>>), (<<102, 1>>)>>
       /\ facturas[f].total = 335000
       /\ productos[101].precio = 120000
       /\ productos[102].precio = 95000

\* ----------------------------------------------------------------- C4
IngresosSonFacturas == ingresos = SumaFacturas(facturas, DOMAIN facturas)

\* C4: a successful checkout adds exactly its invoice's total to the
\* accounting income, a checkout that fails (empty or absent cart, payment
\* rejected) and every other operation leave the income alone, and in every
\* reachable state the income is the sum of the totals of the stored
\* invoices.
C4_IngresosSonFacturas ==
  /\ []IngresosSonFacturas
  /\ [][IF CompraExitosa'
         THEN ingresos' = ingresos + facturas'[seq_factura].total
         ELSE ingresos' = ingresos]_vars

C4_Testigo ==
  /\ Cardinality(DOMAIN facturas) = 2
  /\ ingresos = facturas[1].total + facturas[2].total
  /\ facturas[2].total > 0

\* ----------------------------------------------------------------- C5
IdsConsecutivos ==
  /\ DOMAIN facturas = 1..(seq_factura - 1)
  /\ \A id \in DOMAIN facturas : facturas[id].idFactura = id

\* C5: the counter starts at 1; a successful checkout stores its invoice
\* under the counter's value and advances the counter by 1, every other
\* step (a failed checkout among them) leaves counter and invoices alone;
\* the stored ids are 1..counter-1.
C5_IdsFactura ==
  /\ seq_factura = 1
  /\ []IdsConsecutivos
  /\ [][IF CompraExitosa'
         THEN /\ seq_factura' = seq_factura + 1
              /\ DOMAIN facturas' = DOMAIN facturas \cup {seq_factura}
              /\ facturas'[seq_factura].idFactura = seq_factura
              /\ \A id \in DOMAIN facturas : facturas'[id] = facturas[id]
         ELSE UNCHANGED <<seq_factura, facturas>>]_vars

C5_Testigo ==
  /\ CompraExitosa
  /\ seq_factura = 3
  /\ DOMAIN facturas = {1, 2}

\* ----------------------------------------------------------------- C7
PagoRechazado(tr) ==
  \E i \in 1..Len(tr) : tr[i].op = "pago" /\ tr[i].obs = "rechazado"

\* C7: when the gateway reports failure the checkout raises "Pago
\* rechazado" with stock, events, invoices, counter and income untouched
\* and the cart's line items still in place (the cart is the one whose
\* total the trace starts with).
C7_PagoRechazado ==
  [][PagoRechazado(traza') =>
       LET k == traza'[1].id
       IN /\ resultado' = ErrPago
          /\ UNCHANGED <<productos, facturas, seq_factura, ingresos,
                         ingresos_acumulados, historial>>
          /\ ~PublicaAlgo(traza')
          /\ carritos[k].productos # <<>>
          /\ carritos'[k].productos = carritos[k].productos]_vars

C7_Testigo ==
  /\ resultado = ErrPago
  /\ \E e \in {traza[i] : i \in 1..Len(traza)} :
       e.op = "pago" /\ e.obs = "rechazado" /\ e.n > 0
  /\ \E c \in DOMAIN carritos : Len(carritos[c].productos) = 2

\* ----------------------------------------------------------------- C6
EsAgotado(e) == e.op = "publicar" /\ e.ev = EvProducto /\ e.obs = "Producto agotado"
EsVenta(e) == e.op = "publicar" /\ e.ev = EvVenta /\ e.obs = "Venta realizada"

\* C6: a dispatch of n units of an existing product that returns has
\* decremented the stock by n first, then published exactly n sale events
\* for that product, then one "Producto agotado" event if the stock it left
\* is 0, and no such event if the stock it left is above 0.
C6_EventosDeSalida ==
  [][\A p \in IdsProducto, n \in Salidas :
       (/\ resultado' = "ok"
        /\ p \in DOMAIN productos
        /\ traza' # <<>> /\ traza'[1].op = "inventario" /\ traza'[1].id = p
        /\ DarSalidaProducto(p, n)) =>
         LET tr == traza'
             ventas == {i \in 1..Len(tr) : EsVenta(tr[i])}
             agotados == {i \in 1..Len(tr) : EsAgotado(tr[i])}
         IN /\ productos'[p].stock = productos[p].stock - n
            /\ Indices(tr, "inventario") = {1}
            /\ Cardinality(ventas) = n
            /\ Len(Publicaciones(tr, EvVenta)) = n
            /\ \A i \in ventas \cup agotados : tr[i].id = p
            /\ productos'[p].stock = 0 =>
                 /\ Cardinality(agotados) = 1
                 /\ Len(Publicaciones(tr, EvProducto)) = 1
                 /\ \A i \in agotados, j \in ventas : j < i
            /\ productos'[p].stock > 0 => Publicaciones(tr, EvProducto) = <<>>]_vars

\* Two units dispatched, the stock left at 0: two sale events, then the
\* out-of-stock event, each delivered to the demo's observers.
C6_Testigo ==
  /\ resultado = "ok"
  /\ Len(traza) > 3
  /\ traza[1].op = "inventario" /\ traza[1].n = 0
  /\ Len(Publicaciones(traza, EvVenta)) = 2
  /\ EsAgotado(traza[Len(traza) - 3])
  /\ Len(historial) >= 4

\* ----------------------------------------------------------------- C8
Ausentes(items) == {i \in 1..Len(items) : items[i][1] \notin DOMAIN productos}
PrimerAusente(items) == CHOOSE i \in Ausentes(items) : \A j \in Ausentes(items) : i <= j

\* Units of product p in the line items 1..n of items.
RECURSIVE Unidades(_, _, _)
Unidades(items, n, p) ==
  IF n = 0 THEN 0
  ELSE Unidades(items, n - 1, p) + (IF items[n][1] = p THEN items[n][2] ELSE 0)

RECURSIVE UnidadesTotales(_, _)
UnidadesTotales(items, n) ==
  IF n = 0 THEN 0 ELSE UnidadesTotales(items, n - 1) + items[n][2]

\* C8: a paid checkout whose k-th line item names a product absent from
\* the store raises "Producto no existe" with the payment taken, the
\* stock decrements and sale events of line items 1..k-1 in effect, and no
\* invoice, no counter advance, no income, no order-completed event, and
\* the cart not emptied.
C8_SinReversion ==
  [][\A c \in IdsCliente :
       (/\ ~SinCarrito(c)
        /\ Ausentes(carritos[c].productos) # {}
        /\ FinalizarCompra(c, c, TRUE)) =>
         LET items == carritos[c].productos
             k == PrimerAusente(items)
         IN /\ resultado' = ErrNoExiste
            /\ traza'[2].op = "pago" /\ traza'[2].obs = "ok"
            /\ DOMAIN productos' = DOMAIN productos
            /\ \A p \in DOMAIN productos :
                 productos'[p] =
                   [productos[p] EXCEPT !.stock = @ - Unidades(items, k - 1, p)]
            /\ Len(Publicaciones(traza', EvVenta)) = UnidadesTotales(items, k - 1)
            /\ Len(historial') >= Len(historial) + UnidadesTotales(items, k - 1)
            /\ UNCHANGED <<facturas, seq_factura, ingresos>>
            /\ Publicaciones(traza', EvOrden) = <<>>
            /\ carritos'[c].productos = items]_vars

\* The second line item's product is absent; the first one was dispatched.
C8_Testigo ==
  /\ resultado = ErrNoExiste
  /\ Len(traza) > 3
  /\ traza[2].op = "pago" /\ traza[2].obs = "ok"
  /\ traza[3].op = "inventario"
  /\ Publicaciones(traza, EvVenta) # <<>>
  /\ facturas = Vacio
  /\ \E c \in DOMAIN carritos : Len(carritos[c].productos) = 2

\* ----------------------------------------------------------------- C9
Fallan(subs) == {i \in 1..Len(subs) : subs[i] = HandlerQueFalla}
PrimerFallo(subs) == CHOOSE i \in Fallan(subs) : \A j \in Fallan(subs) : i <= j
Veces(subs, n, h) == Cardinality({i \in 1..n : subs[i] = h})

\* The handler calls of trace tr are the calls of subs[1..n], in order, for
\* event ev with payload d.
LlamaA(tr, subs, n, ev, d) ==
  LET ll == Llamadas(tr)
  IN /\ Len(ll) = n
     /\ \A i \in 1..n :
          /\ ll[i].obs = subs[i].obs
          /\ ll[i].n = subs[i].carrito
          /\ ll[i].ev = ev
          /\ ll[i].id = d.idProducto

\* C9: publicar(name, payload) calls the handlers registered for that
\* name, once per registration, in registration order, and no handler of
\* another name; with no subscriber it changes nothing.  (Handlers that
\* raise are the matter of C10.)
C9_OrdenDeDespacho ==
  [][\A ev \in NombresEvento, d \in DatosBus :
       (/\ Fallan(GetLista(suscriptores, ev)) = {}
        /\ Publicar(ev, d)) =>
         LET subs == GetLista(suscriptores, ev)
         IN /\ resultado' = "ok"
            /\ LlamaA(traza', subs, Len(subs), ev, d)
            /\ Len(historial') = Len(historial) + Veces(subs, Len(subs), obs_audi)
            /\ subs = <<>> =>
                 UNCHANGED <<productos, clientes, carritos, facturas, seq_factura,
                             suscriptores, ingresos, ingresos_acumulados,
                             historial>>]_vars

\* A handler registered twice for the event has just been called twice,
\* while the other event has a subscriber that was not called.
C9_Testigo ==
  /\ resultado = "ok"
  /\ traza # <<>> /\ traza[1].op = "publicar" /\ traza[1].ev = EvVenta
  /\ GetLista(suscriptores, EvVenta) = <<obs_audi, obs_audi>>
  /\ GetLista(suscriptores, EvProducto) # <<>>
  /\ Len(Llamadas(traza)) = 2
  /\ Len(historial) = 2

\* ---------------------------------------------------------------- C10
\* C10: when the i-th handler of a publish call raises, handlers 1..i-1
\* have run, handlers after i are not called and the exception reaches the
\* publisher; a checkout in which a handler raises ends there, with that
\* exception, its later steps not run.
C10_FalloDeHandler ==
  /\ [][\A ev \in NombresEvento, d \in DatosBus :
          (/\ Fallan(GetLista(suscriptores, ev)) # {}
           /\ Publicar(ev, d)) =>
            LET subs == GetLista(suscriptores, ev)
                i == PrimerFallo(subs)
            IN /\ resultado' = ErrHandler
               /\ LlamaA(traza', subs, i, ev, d)
               /\ Len(historial') = Len(historial) + Veces(subs, i - 1, obs_audi)]_vars
  /\ [][(/\ ~SinCarrito(1)
          /\ 101 \in DOMAIN productos
          /\ \/ Fallan(GetLista(suscriptores, EvVenta)) # {}
             \/ Fallan(GetLista(suscriptores, EvProducto)) # {}
                  /\ productos[101].stock <= carritos[1].productos[1][2]
          /\ FinalizarCompra(1, 1, TRUE)) =>
            /\ resultado' = ErrHandler
            /\ traza'[Len(traza')].op = "handler"
            /\ traza'[Len(traza')].obs = HandlerQueFalla.obs
            /\ UNCHANGED <<facturas, seq_factura, ingresos>>
            /\ carritos'[1].productos = carritos[1].productos]_vars

\* The second of three handlers has just raised: the first ran, the third
\* was not called.
C10_Testigo ==
  /\ resultado = ErrHandler
  /\ traza # <<>> /\ traza[1].op = "publicar" /\ traza[1].ev = EvVenta
  /\ GetLista(suscriptores, EvVenta) = <<obs_audi, HandlerQueFalla, obs_audi>>
  /\ Len(Llamadas(traza)) = 2
  /\ Len(historial) = 1

\* ---------------------------------------------------------------- C11
\* The store variables other than the products.
RestoTienda ==
  <<clientes, carritos, facturas, seq_factura, suscriptores, ingresos,
    ingresos_acumulados, historial>>

\* actualizarInventario(p, -n) and then actualizarInventario(p, +n), called
\* on the current state: both return, the first leaves stock - n and the
\* second leaves the products as they are now.
IdaYVuelta(p, n) ==
  LET s1 == actualizarInventario(Estado, p, -n)
      s2 == actualizarInventario(s1, p, n)
  IN /\ s1.err = NoErr
     /\ s1.productos = [productos EXCEPT ![p].stock = @ - n]
     /\ s2.err = NoErr
     /\ s2.productos = productos

\* C11: for every stored product p and every n, actualizarInventario(p, -n)
\* followed by actualizarInventario(p, +n) gives back the products as they
\* were, also when the stock in between is negative; and a single call with
\* delta d adds d to the stock of p and changes no other field of p, no
\* other product and nothing else in the store.
C11_IdaYVuelta ==
  /\ [](\A p \in DOMAIN productos, n \in Salidas : IdaYVuelta(p, n))
  /\ [][\A p \in IdsProducto, d \in Deltas :
          (/\ p \in DOMAIN productos
           /\ traza' # <<>> /\ traza'[1].op = "inventario" /\ traza'[1].id = p
           /\ ActualizarInventario(p, d)) =>
            /\ resultado' = "ok"
            /\ productos' = [productos EXCEPT ![p].stock = @ + d]
            /\ UNCHANGED RestoTienda]_vars

\* Product 101 was just taken below zero (so +n from here passes through
\* or returns from a negative stock) while product 102 is stored too.
C11_Testigo ==
  /\ resultado = "ok"
  /\ Len(traza) = 1 /\ traza[1].op = "inventario" /\ traza[1].id = 101
  /\ traza[1].n = -2
  /\ productos[101].stock = -2
  /\ 102 \in DOMAIN productos /\ productos[102].stock = 1

\* ---------------------------------------------------------------- C12
\* The row an ingest of dto stores.
Fila(dto) ==
  [idProducto |-> dto.idProducto, nombre |-> dto.nombre, precio |-> dto.precio,
   stock |-> dto.stock]

EsGuardado(tr) == tr # <<>> /\ tr[1].op = "guardado"

\* C12: an ingest of dto stores under dto.idProducto exactly the name,
\* price and stock of dto, whatever row was there before, and leaves the
\* other rows alone, and obtenerPorId of that id, called next, returns
\* them; obtenerPorId of a stored id returns the stored name, price and
\* stock and of an id not stored raises "Producto no encontrado", changing
\* nothing; no operation other than an ingest changes a row.
C12_IngresoYConsulta ==
  /\ [][\A dto \in DtosCatalogo :
          (/\ EsGuardado(traza') /\ traza'[1].id = dto.idProducto
           /\ traza'[1].obs = dto.nombre
           /\ IngresarProducto(dto)) =>
            LET s == obtenerPorId(Estado', dto.idProducto)
            IN /\ resultado' = "ok"
               /\ DOMAIN productos' = DOMAIN productos \cup {dto.idProducto}
               /\ productos'[dto.idProducto] = Fila(dto)
               /\ \A p \in DOMAIN productos \ {dto.idProducto} :
                    productos'[p] = productos[p]
               /\ s.err = NoErr
               /\ s.ret = Valor("Producto",
                                [idProducto |-> dto.idProducto, nombre |-> dto.nombre,
                                 precio |-> dto.precio, inventario |-> dto.stock])]_vars
  /\ [][\A p \in IdsProducto :
          (/\ traza' = <<>> /\ retorno'.tipo # "lista"
           /\ ObtenerPorId(p)) =>
            /\ UNCHANGED <<productos, RestoTienda>>
            /\ IF p \in DOMAIN productos
               THEN /\ resultado' = "ok"
                    /\ retorno'.tipo = "Producto"
                    /\ retorno'.valor.idProducto = p
                    /\ retorno'.valor.nombre = productos[p].nombre
                    /\ retorno'.valor.precio = productos[p].precio
                    /\ retorno'.valor.inventario = productos[p].stock
               ELSE /\ resultado' = ErrNoEncontrado
                    /\ retorno' = Ninguno]_vars
  /\ [][~EsGuardado(traza') => UNCHANGED productos]_vars

\* Product 101 was ingested at least twice, the last time as "Zapatilla
\* Casual" at 120000 with stock 0, and has just been fetched; 102 was
\* never ingested.
C12_Testigo ==
  /\ resultado = "ok"
  /\ retorno.tipo = "Producto"
  /\ retorno.valor =
       [idProducto |-> 101, nombre |-> "Zapatilla Casual", precio |-> 120000,
        inventario |-> 0]
  /\ DOMAIN productos = {101}
  /\ Len(historial) = 2

\* ---------------------------------------------------------------- C13
Tiene(f, k) == f.dado /\ k \in DOMAIN f.dict

\* Row p satisfies every option given in f.
Cumple(p, f) ==
  /\ Tiene(f, "min_precio") => p.precio >= f.dict["min_precio"]
  /\ Tiene(f, "max_precio") => p.precio <= f.dict["max_precio"]
  /\ (Tiene(f, "disponibles") /\ f.dict["disponibles"]) => p.stock > 0

\* C13: listarProductos(filtros) returns exactly the stored rows that
\* satisfy every option given: min_precio keeps precio >= bound, max_precio
\* keeps precio <= bound, disponibles = True keeps stock > 0; with None or
\* an empty dict it returns every stored row; the store is not changed.
C13_Catalogo ==
  [][\A f \in Filtros :
       (/\ traza' = <<>> /\ retorno'.tipo = "lista"
        /\ ListarProductos(f)) =>
         /\ resultado' = "ok"
         /\ retorno'.valor =
              {productos[p] : p \in {q \in DOMAIN productos : Cumple(productos[q], f)}}
         /\ (~f.dado \/ DOMAIN f.dict = {}) =>
              retorno'.valor = {productos[p] : p \in DOMAIN productos}
         /\ UNCHANGED <<productos, RestoTienda>>]_vars

\* Of two stored products the listing has just returned only the one that
\* is in stock and priced 120000; the other has stock 0 and costs 95000.
C13_Testigo ==
  /\ resultado = "ok"
  /\ retorno.tipo = "lista"
  /\ DOMAIN productos = {101, 102}
  /\ productos[101].stock = 0 /\ productos[101].precio = 95000
  /\ productos[102].stock = 1 /\ productos[102].precio = 120000
  /\ retorno.valor = {productos[102]}

\* ---------------------------------------------------------------- C14
\* The repository, the inventory service and the order service end with
\* the exception of the failure they detect.
PropaganServicios ==
  /\ \A p \in IdsProducto \ DOMAIN productos :
       /\ ObtenerPorId(p) => resultado' = ErrNoEncontrado
       /\ ActualizarInventario(p, -1) => resultado' = ErrNoExiste
       /\ DarSalidaProducto(p, 1) => resultado' = ErrNoExiste
  /\ \A ok \in BOOLEAN :
       FinalizarCompra(1, 1, ok) =>
         IF SinCarrito(1) THEN resultado' = ErrCarrito
         ELSE IF ~ok THEN resultado' = ErrPago
         ELSE IF Ausentes(carritos[1].productos) # {} THEN resultado' = ErrNoExiste
         ELSE resultado' = "ok"

\* The facade's add-to-cart has a failure to detect.
NoSePuedeAgregar(p, q) == p \notin DOMAIN productos \/ productos[p].stock < q

LineasDe(cs, c) == IF c \in DOMAIN cs THEN cs[c].productos ELSE <<>>

FachadaPropaga ==
  \A p \in IdsProducto, q \in Cantidades :
    (NoSePuedeAgregar(p, q) /\ AgregarAlCarrito(1, p, q)) => resultado' # "ok"

FachadaRegistra ==
  \A p \in IdsProducto, q \in Cantidades :
    (NoSePuedeAgregar(p, q) /\ AgregarAlCarrito(1, p, q)) =>
      /\ resultado' = "ok"
      /\ retorno' = Ninguno
      /\ Len(traza') = 1 /\ traza'[1].op = "error"
      /\ traza'[1].obs = IF p \in DOMAIN productos
                         THEN "Stock insuficiente" ELSE "Producto no encontrado"
      /\ LineasDe(carritos', 1) = LineasDe(carritos, 1)
      /\ UNCHANGED <<productos, facturas, seq_factura, ingresos>>

\* C14 as stated: every operation that detects a failure, the facade's
\* add-to-cart for a missing product or insufficient stock included, ends
\* with an error and does not return normally.
C14_TodoSePropaga == [][PropaganServicios /\ FachadaPropaga]_vars

\* C14 amended: repository lookup and stock adjustment, inventory dispatch
\* and checkout end with the exception of the failure they detect; the
\* facade's add-to-cart for a missing product or insufficient stock logs
\* one error line and returns None normally, the cart's line items as they
\* were.
C14_PropaganSalvoFachada == [][PropaganServicios /\ FachadaRegistra]_vars

\* The facade has just refused two units of a product with less stock: it
\* returned normally, one error line logged, the cart empty.
C14_Testigo ==
  /\ resultado = "ok"
  /\ traza = <<Entrada("error", "", "Stock insuficiente", 101, 2)>>
  /\ 101 \in DOMAIN productos /\ productos[101].stock = 1
  /\ 1 \in DOMAIN carritos /\ carritos[1].productos = <<>>

\* ---------------------------------------------------------------- C15
\* Cart c holds a line item of product p.
Lista(c, p) == \E j \in 1..Len(carritos[c].productos) : carritos[c].productos[j][1] = p

\* C15: when an operation that published "Producto agotado" for a product
\* has returned, no cart of the store holds a line item of that product.
C15_CarritosSinAgotados ==
  resultado = "ok" =>
    \A i \in 1..Len(traza) :
      EsAgotado(traza[i]) => \A c \in DOMAIN carritos : ~Lista(c, traza[i].id)

\* ---------------------------------------------------------------- C16
TotalDe(cs, c) == IF c \in DOMAIN cs THEN cs[c].total ELSE 0

\* The last operation was a facade add-to-cart of q units of p.
FueAgregar(tr, p, q) ==
  /\ tr # <<>>
  /\ tr[Len(tr)].op \in {"agregado", "error"}
  /\ tr[Len(tr)].id = p /\ tr[Len(tr)].n = q

\* C16: agregarAlCarrito(c, p, q) appends (p, q) at the end of cart c when
\* p is stored with stock >= q, and the cart's total is then the sum of
\* price x quantity over its line items; otherwise the cart's line items
\* and total stay as they were.  Either way the other carts, the products
\* (their stock included), the invoices, the counter and the accounting
\* stay as they were.
C16_AgregarAlCarrito ==
  [][\A p \in IdsProducto, q \in Cantidades :
       FueAgregar(traza', p, q) =>
         \A c \in IdsCliente :
           AgregarAlCarrito(c, p, q) =>
             /\ resultado' = "ok"
             /\ c \in DOMAIN carritos'
             /\ IF p \in DOMAIN productos /\ productos[p].stock >= q
                THEN /\ carritos'[c].productos =
                          Append(LineasDe(carritos, c), <<p, q>>)
                     /\ carritos'[c].total =
                          SumaImportes(productos, carritos'[c].productos,
                                       Len(carritos'[c].productos))
                ELSE /\ carritos'[c].productos = LineasDe(carritos, c)
                     /\ carritos'[c].total = TotalDe(carritos, c)
             /\ \A k \in DOMAIN carritos \ {c} : carritos'[k] = carritos[k]
             /\ UNCHANGED <<productos, facturas, seq_factura, ingresos,
                            ingresos_acumulados, historial>>]_vars

\* A second line item has just been appended to a cart whose product has
\* exactly the stock asked for; the total covers both line items.
C16_Testigo ==
  /\ resultado = "ok"
  /\ FueAgregar(traza, 102, 2) /\ traza[Len(traza)].op = "agregado"
  /\ productos[102].stock = 2 /\ productos[102].precio = 120000
  /\ 101 \in DOMAIN productos
  /\ 1 \in DOMAIN carritos
  /\ carritos[1].productos = <<(<<101, 1>>), (<<102, 2>>)>>
  /\ carritos[1].total = productos[101].precio + 240000

\* ---------------------------------------------------------------- C17
\* The j-th smallest element of the set of indices S.
Posicion(S, j) == CHOOSE i \in S : Cardinality({x \in S : x <= i}) = j

EsPublicacion(e) == e.op = "publicar"

\* Trace tr is that of a checkout of the line items items that ran all its
\* steps: total, payment, then for each line item in order its stock
\* update followed by its own sale events (one per unit) and out-of-stock
\* event and nothing of another line item, then the invoice, then the
\* income, then one order-completed event, then the emptying of the cart.
EnOrden(tr, items) ==
  LET n == Len(items)
      inv == Indices(tr, "inventario")
      pagos == Indices(tr, "pago")
      facts == Indices(tr, "factura")
      ingrs == Indices(tr, "ingreso")
      vacs == Indices(tr, "vaciado")
      ords == {i \in 1..Len(tr) : EsPublicacion(tr[i]) /\ tr[i].ev = EvOrden}
      iPago == CHOOSE i \in pagos : TRUE
      iFact == CHOOSE i \in facts : TRUE
      iIngr == CHOOSE i \in ingrs : TRUE
      iOrd == CHOOSE i \in ords : TRUE
      fin(j) == IF j < n THEN Posicion(inv, j + 1) ELSE iFact
  IN /\ Cardinality(pagos) = 1 /\ Cardinality(facts) = 1
     /\ Cardinality(ingrs) = 1 /\ Cardinality(ords) = 1
     /\ vacs = {Len(tr)}
     /\ Cardinality(inv) = n
     /\ tr[1].op = "total" /\ iPago = 2 /\ tr[iPago].obs = "ok"
     /\ \A i \in inv : iPago < i /\ i < iFact
     /\ Posicion(inv, 1) = iPago + 1
     /\ \A j \in 1..n :
          LET a == Posicion(inv, j)
              pubs == {i \in (a + 1)..(fin(j) - 1) : EsPublicacion(tr[i])}
          IN /\ tr[a].id = items[j][1]
             /\ \A i \in pubs : tr[i].id = items[j][1] /\ tr[i].ev # EvOrden
             /\ Cardinality({i \in pubs : EsVenta(tr[i])}) = items[j][2]
             /\ \A i \in pubs : EsVenta(tr[i]) \/ EsAgotado(tr[i])
             /\ \A i \in pubs, k \in pubs :
                  (EsVenta(tr[i]) /\ EsAgotado(tr[k])) => i < k
     /\ iFact < iIngr /\ iIngr < iOrd /\ iOrd < Len(tr)
     /\ \A i \in 1..Len(tr) : EsPublicacion(tr[i]) => i <= iOrd

\* C17: a successful checkout runs its steps in the order of EnOrden, on
\* the line items the cart held when it was called; a checkout that fails
\* publishes no order-completed event.
C17_OrdenDePasos ==
  /\ [](resultado # "ok" => Publicaciones(traza, EvOrden) = <<>>)
  /\ [][CompraExitosa' =>
          EnOrden(traza', carritos[traza'[Len(traza')].id].productos)]_vars

\* A checkout of two line items has returned; the first line item sold its
\* product out (its out-of-stock event precedes the second stock update)
\* and the second one was of two units.
C17_Testigo ==
  /\ CompraExitosa
  /\ Cardinality(Indices(traza, "inventario")) = 2
  /\ \E i \in 1..Len(traza) :
       /\ EsAgotado(traza[i])
       /\ i < Posicion(Indices(traza, "inventario"), 2)
  /\ Len(Publicaciones(traza, EvVenta)) = 3

\* ---------------------------------------------------------------- C18
\* The cart the last (successful) checkout emptied.
CarritoComprado == traza[Len(traza)].id

\* C18: after a successful checkout the cart is still in the store with no
\* line items and total 0, and a checkout of that cart called next, by any
\* client and whatever the payment answer, raises "Carrito vacio o
\* inexistente"; no step removes a cart from the store.
C18_CarritoVaciado ==
  /\ [](CompraExitosa =>
          /\ CarritoComprado \in DOMAIN carritos
          /\ carritos[CarritoComprado].productos = <<>>
          /\ carritos[CarritoComprado].total = 0
          /\ \A c \in IdsCliente, ok \in BOOLEAN :
               verificar(Estado, c, CarritoComprado, ok).err = ErrCarrito)
  /\ [][(CompraExitosa
          /\ \E ok \in BOOLEAN :
               FinalizarCompra(CarritoComprado, CarritoComprado, ok)) =>
            /\ resultado' = ErrCarrito
            /\ UNCHANGED <<carritos, facturas, seq_factura, ingresos, productos>>]_vars
  /\ [][DOMAIN carritos \subseteq DOMAIN carritos']_vars

\* Cart 1 has just been checked out with two line items and is in the
\* store, empty, next to cart 2, which still holds a line item.
C18_Testigo ==
  /\ CompraExitosa
  /\ CarritoComprado = 1
  /\ DOMAIN carritos = {1, 2}
  /\ carritos[1] = NuevoCarrito
  /\ carritos[2].productos # <<>>
  /\ Len(facturas[1].productos) = 2

\* ---------------------------------------------------------------- C19
\* C19: every stored invoice is still stored after any step, under the same
\* id and with the same id, client, line items and total: neither the
\* emptying of its cart, nor a later add-to-cart or checkout, nor a
\* re-ingest of its products at another price or stock changes or removes
\* it; and the invoice a checkout stores holds, when the checkout returns
\* with the cart emptied, the line items the cart had.
C19_FacturasInmutables ==
  /\ [][\A id \in DOMAIN facturas :
          /\ id \in DOMAIN facturas'
          /\ facturas'[id] = facturas[id]]_vars
  /\ [][CompraExitosa' =>
          /\ facturas'[seq_factura].productos =
               carritos[traza'[Len(traza')].id].productos
          /\ facturas'[seq_factura].productos # <<>>
          /\ retorno' = Valor("Factura", facturas'[seq_factura])]_vars

\* Invoice 1 keeps its line item and its total of 95000 after its cart was
\* emptied, its product re-ingested at 120000 and the cart filled again.
C19_Testigo ==
  /\ DOMAIN facturas = {1}
  /\ facturas[1].productos = <<(<<101, 1>>)>>
  /\ facturas[1].total = 95000
  /\ facturas[1].cliente = 1
  /\ productos[101].precio = 120000
  /\ carritos[1].productos = <<(<<101, 2>>)>>
  /\ carritos[1].total = 240000

\* ---------------------------------------------------------------- C20
\* Unit price of product p in prods, 0 when p is not stored.
PrecioDe(prods, p) == IF p \in DOMAIN prods THEN prods[p].precio ELSE 0

\* Sum of the unit prices, in prods, of the products of the sale events
\* delivered to the accounting observer in tr[1..n].
RECURSIVE SumaVentas(_, _, _)
SumaVentas(prods, tr, n) ==
  IF n = 0 THEN 0
  ELSE SumaVentas(prods, tr, n - 1)
       + (IF tr[n].op = "handler" /\ tr[n].obs = obs_conta.obs /\ tr[n].ev = EvVenta
          THEN PrecioDe(prods, tr[n].id) ELSE 0)

\* ObservadorContabilidad.actualizar called now for product p: the running
\* total grows by the unit price of p, by nothing when p is not stored,
\* and nothing else changes.
SumaElPrecio(p) ==
  ObservadorContabilidad_actualizar(Estado, p, EvVentaRealizada)
    = [Estado EXCEPT !.ingresos_acumulados = @ + PrecioDe(productos, p)]

\* C20: the accounting observer adds the product's current unit price per
\* sale event of a stored product and nothing for a product not stored;
\* with the demo wiring every step adds to its running total the unit price
\* of each sale event it was delivered, a successful checkout adds the
\* invoice's total, and the running total always equals the income
\* recorded by Contabilidad.
C20_IngresosAcumulados ==
  /\ [](\A p \in IdsProducto : SumaElPrecio(p))
  /\ [](ingresos_acumulados = ingresos)
  /\ [][/\ ingresos_acumulados' =
             ingresos_acumulados + SumaVentas(productos', traza', Len(traza'))
        /\ CompraExitosa' =>
             ingresos_acumulados' =
               ingresos_acumulados + facturas'[seq_factura].total]_vars

\* A checkout of three units in two line items has returned; observer and
\* Contabilidad both stand at its total while one product is not stored.
C20_Testigo ==
  /\ CompraExitosa
  /\ Len(Publicaciones(traza, EvVenta)) = 3
  /\ ingresos_acumulados = ingresos
  /\ ingresos = 285000
  /\ DOMAIN productos = {101}

\* ---------------------------------------------------------------- C21
\* The audit records of the events published in tr[1..n], in order.
RECURSIVE Registros(_, _)
Registros(tr, n) ==
  IF n = 0 THEN <<>>
  ELSE IF EsPublicacion(tr[n])
  THEN Append(Registros(tr, n - 1), <<tr[n].id, Evento(tr[n].obs, tr[n].n)>>)
  ELSE Registros(tr, n - 1)

EntregasAuditoria(tr) ==
  {i \in 1..Len(tr) : tr[i].op = "handler" /\ tr[i].obs = obs_audi.obs}

\* C21: with the demo wiring every step leaves the audit log as it was,
\* extended at its end by one record per event the step published on the
\* three names, in publication order (each of them delivered once to the
\* audit observer); a successful checkout of line items with quantities
\* q1..qm adds q1+...+qm sale records, one record per out-of-stock event
\* and, last, the order-completed record of its invoice.
C21_HistorialCompleto ==
  /\ [][/\ historial' = historial \o Registros(traza', Len(traza'))
        /\ Cardinality(EntregasAuditoria(traza')) =
             Cardinality({i \in 1..Len(traza') : EsPublicacion(traza'[i])})]_vars
  /\ [][CompraExitosa' =>
          LET items == carritos[traza'[Len(traza')].id].productos
              agotados == {i \in 1..Len(traza') : EsAgotado(traza'[i])}
              nuevos == SubSeq(historial', Len(historial) + 1, Len(historial'))
          IN /\ Len(nuevos) =
                  UnidadesTotales(items, Len(items)) + Cardinality(agotados) + 1
             /\ Len(SelectSeq(nuevos, LAMBDA r : r[2] = EvVentaRealizada)) =
                  UnidadesTotales(items, Len(items))
             /\ Len(SelectSeq(nuevos, LAMBDA r : r[2] = EvAgotado)) =
                  Cardinality(agotados)
             /\ nuevos[Len(nuevos)] = <<0, EvOrdenCompletada(seq_factura)>>]_vars

\* After two ingests a checkout of 1 + 2 units, one product sold out, has
\* returned: the log holds 2 + 3 + 1 + 1 records.
C21_Testigo ==
  /\ CompraExitosa
  /\ Len(Publicaciones(traza, EvVenta)) = 3
  /\ Cardinality({i \in 1..Len(traza) : EsAgotado(traza[i])}) = 1
  /\ Len(historial) = 7
  /\ historial[7] = <<0, EvOrdenCompletada(1)>>

\* ---------------------------------------------------------------- C22
\* C22: the invoice a successful checkout stores holds exactly the line
\* items the cart held when the checkout was called, in the same order,
\* and its total is the sum of price x quantity over its own line items;
\* also when the cart is subscribed to producto_actualizado as an observer
\* and one of its products sells out during the checkout.
C22_FacturaFiel ==
  [][CompraExitosa' =>
       LET f == facturas'[seq_factura]
       IN /\ f.productos = carritos[traza'[Len(traza')].id].productos
          /\ f.total = SumaImportes(productos, f.productos, Len(f.productos))]_vars

\* ---------------------------------------------------------------- C23
\* C23: a successful checkout lowers the stock of each stored product by
\* the sum of the quantities of that product's line items in the cart (by
\* 0 for a product not in the cart) and changes no name, no price and not
\* the set of stored products.
C23_StockDescontado ==
  [][CompraExitosa' =>
       LET items == carritos[traza'[Len(traza')].id].productos
       IN /\ DOMAIN productos' = DOMAIN productos
          /\ \A p \in DOMAIN productos :
               /\ productos'[p].stock =
                    productos[p].stock - Unidades(items, Len(items), p)
               /\ productos'[p].nombre = productos[p].nombre
               /\ productos'[p].precio = productos[p].precio
               /\ productos'[p].idProducto = productos[p].idProducto]_vars

\* A checkout of two line items of product 101 (1 + 1 units) has returned:
\* 101 went from 2 to 0 and 102, not in the cart, keeps its stock of 2.
C23_Testigo ==
  /\ CompraExitosa
  /\ facturas[1].productos = <<(<<101, 1>>), (<<101, 1>>)>>
  /\ DOMAIN productos = {101, 102}
  /\ productos[101].stock = 0
  /\ productos[102].stock = 2

=============================================================================
